---- MODULE Spec2Model ----
(***************************************************************************)
(* Model of dotfiles/symlink_manager.py: the DotfilesManager mapping       *)
(* table, selection filtering, duplicate-target validation and the         *)
(* backup-and-replace symlink routine, run against an explicit filesystem. *)
(*                                                                         *)
(* A path is a sequence of components; a component (a file name) is a      *)
(* sequence of pieces in which every "." of the name is a piece of its     *)
(* own, so that pathlib's suffix arithmetic is computed, not assumed.      *)
(* A command-line token is a sequence of pieces in which every blank is a  *)
(* piece of its own, so that str.strip() is computed.                      *)
(***************************************************************************)
EXTENDS Integers, Sequences, FiniteSets, TLC

\* ---------------------------------------------------------------- bounds
MaxLimit == 2
MaxExclude == 1
MaxMissing == 1
MaxRuns == 2
MaxHops == 4

\* ------------------------------------------------------- sequence helpers
Last(s) == s[Len(s)]

Front(s) == SubSeq(s, 1, Len(s) - 1)

Range(s) == {s[k] : k \in 1..Len(s)}

IsPrefix(s, t) == Len(s) =< Len(t) /\ SubSeq(t, 1, Len(s)) = s

\* ------------------------------------------------------------------ paths
home_dir == << <<"~">> >>

dotfiles_dir == << <<"dotfiles">> >>

\* the host the script runs on
VARIABLES
  platform_system,      \* platform.system().lower()
  CONFIG_DIR            \* the environment variable CONFIG_DIR: whether it is
                        \* set, and the path its value names

host_vars == <<platform_system, CONFIG_DIR>>

\* os.getenv finds no CONFIG_DIR
Unset == [set |-> FALSE, value |-> <<>>]

\* get_default_config_dir(): ~/Library/Application Support on macOS,
\* ~/.config on Linux and (with a warning) everywhere else
GetDefaultConfigDir(system) ==
  IF system = "darwin"
  THEN home_dir \o << <<"Library">>, <<"Application Support">> >>
  ELSE IF system = "linux"
  THEN home_dir \o << <<".", "config">> >>
  ELSE home_dir \o << <<".", "config">> >>

\* DotfilesManager.__init__:
\* Path(os.getenv("CONFIG_DIR", str(get_default_config_dir())))
ConfigDir(system, env) ==
  IF env.set THEN env.value ELSE GetDefaultConfigDir(system)

\* self.config_dir
config_dir == ConfigDir(platform_system, CONFIG_DIR)

Nowhere == << <<"nowhere">> >>

Parent(p) == Front(p)

Ancestors(p) == {SubSeq(p, 1, k) : k \in 1..(Len(p) - 1)}

\* str.rfind("."), 1-based; 0 when the name has no "."
RFindDot(name) ==
  LET ks == {k \in 1..Len(name) : name[k] = "."}
  IN IF ks = {} THEN 0 ELSE CHOOSE k \in ks : \A j \in ks : j =< k

\* PurePath.suffix: the last "." and what follows it, unless that "." is the
\* first or the last character of the name
Suffix(name) ==
  LET k == RFindDot(name)
  IN IF k > 1 /\ k < Len(name) THEN SubSeq(name, k, Len(name)) ELSE <<>>

WithSuffixAppend(p, suffix) == Front(p) \o <<Last(p) \o suffix>>

\* PurePath.with_suffix(suffix): the old suffix is REPLACED when there is one
WithSuffix(p, suffix) ==
  LET name == Last(p)
      old  == Suffix(name)
      new  == IF old = <<>> THEN name \o suffix
              ELSE SubSeq(name, 1, Len(name) - Len(old)) \o suffix
  IN Front(p) \o <<new>>

BackupSuffix == <<".", "backup">>

\* ---------------------------------------------------------- mapping table
\* key order of the config_mapping dict literal (declaration order)
config_mapping_keys ==
  <<"bashrc", "bash_aliases", "bash_env", "npmrc", "git", "tmux",
    "nvim-plugins", "nvim-no-plugins", "vscode", "cursor">>

\* _load_config_mapping, for a given self.config_dir
ConfigMapping(cd) ==
  [n \in Range(config_mapping_keys) |->
    CASE n = "bashrc" ->
           [source |-> dotfiles_dir \o << <<"bashrc">> >>,
            target |-> home_dir \o << <<".", "bashrc">> >>]
      [] n = "bash_aliases" ->
           [source |-> dotfiles_dir \o << <<"bash_aliases">> >>,
            target |-> home_dir \o << <<".", "bash_aliases">> >>]
      [] n = "bash_env" ->
           [source |-> dotfiles_dir \o << <<"bash_env">> >>,
            target |-> home_dir \o << <<".", "bash_env">> >>]
      [] n = "npmrc" ->
           [source |-> dotfiles_dir \o << <<"npmrc">> >>,
            target |-> home_dir \o << <<".", "npmrc">> >>]
      [] n = "git" ->
           [source |-> dotfiles_dir \o << <<"git">>, <<"config">> >>,
            target |-> home_dir \o << <<".", "git">>, <<"config">> >>]
      [] n = "tmux" ->
           [source |-> dotfiles_dir \o << <<"tmux">>, <<"tmux", ".", "conf">> >>,
            target |-> home_dir \o << <<"tmux">>, <<"tmux", ".", "conf">> >>]
      [] n = "nvim-plugins" ->
           [source |-> dotfiles_dir \o << <<"nvim-plugins">> >>,
            target |-> cd \o << <<"nvim">> >>]
      [] n = "nvim-no-plugins" ->
           [source |-> dotfiles_dir \o << <<"nvim-no-plugins">> >>,
            target |-> cd \o << <<"nvim">> >>]
      [] n = "vscode" ->
           [source |-> dotfiles_dir \o << <<"vscode">>, <<"settings", ".", "json">> >>,
            target |-> cd \o << <<"Code">>, <<"User">>, <<"settings", ".", "json">> >>]
      [] n = "cursor" ->
           [source |-> dotfiles_dir \o << <<"cursor">>, <<"settings", ".", "json">> >>,
            target |-> cd \o << <<"Cursor">>, <<"User">>, <<"settings", ".", "json">> >>]]

\* self.config_mapping
config_mapping == ConfigMapping(config_dir)

KnownNames == Range(config_mapping_keys)

SourceOf(n) == config_mapping[n].source

TargetOf(n) == config_mapping[n].target

Targets == {config_mapping[n].target : n \in KnownNames}

Sources == {config_mapping[n].source : n \in KnownNames}

\* position of a name in the mapping table (0 for an unknown name)
MappingIndex(n) ==
  IF n \in KnownNames
  THEN CHOOSE k \in 1..Len(config_mapping_keys) : config_mapping_keys[k] = n
  ELSE 0

\* ------------------------------------------------------------- filesystem
\* A filesystem is a function from the paths that exist to their nodes.
DirNode == [kind |-> "dir", data |-> "", to |-> <<>>]

FileNode(d) == [kind |-> "file", data |-> d, to |-> <<>>]

LinkNode(p) == [kind |-> "link", data |-> "", to |-> p]

\* lstat succeeds
LExists(f, p) == p \in DOMAIN f

\* Path.is_symlink()
IsSymlink(f, p) == LExists(f, p) /\ f[p].kind = "link"

\* the node a path resolves to after following symlinks (at most MaxHops hops),
\* or the path itself when resolution fails
RECURSIVE Resolve(_, _, _)
Resolve(f, p, fuel) ==
  IF ~LExists(f, p) THEN Nowhere
  ELSE IF f[p].kind # "link" THEN p
  ELSE IF fuel = 0 THEN Nowhere
  ELSE Resolve(f, f[p].to, fuel - 1)

\* Path.exists(): stat, which follows symlinks; a dangling symlink does not exist
Exists(f, p) == LExists(f, Resolve(f, p, MaxHops))

\* Path.is_dir(): follows symlinks
IsDir(f, p) == Exists(f, p) /\ f[Resolve(f, p, MaxHops)].kind = "dir"

Put(f, p, node) == [q \in DOMAIN f \cup {p} |-> IF q = p THEN node ELSE f[q]]

Remove(f, p) == [q \in DOMAIN f \ {p} |-> f[q]]

Children(f, p) == {q \in DOMAIN f : Len(q) > Len(p) /\ IsPrefix(p, q)}

\* errno of os.mkdir(p): the path walk fails at the first ancestor that is not
\* a directory
OsMkdirErrno(f, p) ==
  LET bad == {a \in Ancestors(p) : ~IsDir(f, a)}
  IN IF bad # {}
     THEN LET a == CHOOSE x \in bad : \A y \in bad : Len(x) =< Len(y)
          IN IF Exists(f, a) THEN "ENOTDIR" ELSE "ENOENT"
     ELSE IF LExists(f, p) THEN "EEXIST" ELSE "OK"

\* Path.mkdir(parents=True, exist_ok=True)
RECURSIVE Mkdir(_, _)
Mkdir(f, p) ==
  LET e == OsMkdirErrno(f, p)
  IN IF e = "OK" THEN [ok |-> TRUE, fs |-> Put(f, p, DirNode)]
     ELSE IF e = "ENOENT"
     THEN IF Len(p) =< 1 THEN [ok |-> FALSE, fs |-> f]
          ELSE LET r == Mkdir(f, Parent(p))
               IN IF ~r.ok THEN r
                  ELSE IF OsMkdirErrno(r.fs, p) = "OK"
                       THEN [ok |-> TRUE, fs |-> Put(r.fs, p, DirNode)]
                       ELSE [ok |-> IsDir(r.fs, p), fs |-> r.fs]
     ELSE [ok |-> IsDir(f, p), fs |-> f]

\* Path.unlink()
Unlink(f, p) == [ok |-> LExists(f, p), fs |-> IF LExists(f, p) THEN Remove(f, p) ELSE f]

\* Path.rename(dst), i.e. POSIX rename(2): a file replaces a file or symlink
\* but not a directory; a directory replaces only an empty directory
Rename(f, src, dst) ==
  LET moved     == {q \in DOMAIN f : IsPrefix(src, q)}
      Rebase(q) == dst \o SubSeq(q, Len(src) + 1, Len(q))
      kept      == DOMAIN f \ (moved \cup {dst})
      done      == [q \in kept \cup {Rebase(m) : m \in moved} |->
                     IF q \in kept THEN f[q]
                     ELSE f[CHOOSE m \in moved : Rebase(m) = q]]
      srcIsDir  == f[src].kind = "dir"
      allowed   ==
        IF ~LExists(f, dst) THEN TRUE
        ELSE IF srcIsDir
        THEN f[dst].kind = "dir" /\ Children(f, dst) = {}
        ELSE f[dst].kind # "dir"
  IN IF LExists(f, src) /\ IsDir(f, Parent(dst)) /\ allowed
     THEN [ok |-> TRUE, fs |-> done]
     ELSE [ok |-> FALSE, fs |-> f]

\* Path.symlink_to(source), i.e. symlink(2): fails when anything, a dangling
\* symlink included, already sits at the link's path
SymlinkTo(f, target, source) ==
  IF LExists(f, target) \/ ~IsDir(f, Parent(target))
  THEN [ok |-> FALSE, fs |-> f]
  ELSE [ok |-> TRUE, fs |-> Put(f, target, LinkNode(source))]

\* ------------------------------------------------ DotfilesManager methods
\* _check_duplicate_targets: target -> the selected names that map to it
TargetToDotfiles(dotfiles) ==
  [t \in {config_mapping[dotfiles[k]].target :
            k \in {j \in 1..Len(dotfiles) : dotfiles[j] \in KnownNames}} |->
     SelectSeq(dotfiles,
               LAMBDA n : n \in KnownNames /\ config_mapping[n].target = t)]

Duplicates(dotfiles) ==
  LET m == TargetToDotfiles(dotfiles)
  IN {t \in DOMAIN m : Len(m[t]) > 1}

CheckNeverRaises(dotfiles) == FALSE

\* TRUE when _check_duplicate_targets raises ValueError
CheckDuplicateTargetsRaises(dotfiles) == Duplicates(dotfiles) # {}

SelectAllIgnoringExclude(exclude) == config_mapping_keys

\* symlink_all: dotfiles_to_process
SelectAll(exclude) ==
  SelectSeq(config_mapping_keys, LAMBDA n : n \notin exclude)

SelectSpecificInTableOrder(dotfiles, exclude) ==
  SelectSeq(config_mapping_keys,
            LAMBDA n : n \in Range(dotfiles) /\ n \notin exclude)

\* symlink_specific: dotfiles_to_process
SelectSpecific(dotfiles, exclude) ==
  SelectSeq(dotfiles, LAMBDA n : n \in KnownNames /\ n \notin exclude)

CreateSymlinkMkdirFirst(f, source, target) ==
  LET m == Mkdir(f, Parent(target))
  IN IF ~m.ok THEN [fs |-> m.fs, raised |-> TRUE, outcome |-> "mkdir_raised"]
     ELSE IF ~Exists(m.fs, source)
     THEN [fs |-> m.fs, raised |-> FALSE, outcome |-> "skipped"]
     ELSE LET s == SymlinkTo(m.fs, target, source)
          IN [fs |-> s.fs, raised |-> FALSE,
              outcome |-> IF s.ok THEN "created" ELSE "symlink_failed"]

\* _create_symlink; raised = an exception left the method
CreateSymlink(f, source, target) ==
  IF ~Exists(f, source)
  THEN [fs |-> f, raised |-> FALSE, outcome |-> "skipped"]
  ELSE
    LET m == Mkdir(f, Parent(target))
    IN IF ~m.ok
       THEN [fs |-> m.fs, raised |-> TRUE, outcome |-> "mkdir_raised"]
       ELSE
         LET g == m.fs
             h == IF Exists(g, target)
                  THEN IF IsSymlink(g, target)
                       THEN Unlink(g, target)
                       ELSE Rename(g, target, WithSuffix(target, BackupSuffix))
                  ELSE [ok |-> TRUE, fs |-> g]
         IN IF ~h.ok
            THEN [fs |-> h.fs, raised |-> TRUE, outcome |-> "rename_raised"]
            ELSE
              LET s == SymlinkTo(h.fs, target, source)
              IN [fs |-> s.fs, raised |-> FALSE,
                  outcome |-> IF s.ok THEN "created" ELSE "symlink_failed"]

\* ------------------------------------------------------------ command line
\* str.strip(): drop leading and trailing blanks
RECURSIVE Strip(_)
Strip(t) ==
  IF t = <<>> THEN t
  ELSE IF t[1] = " " THEN Strip(Tail(t))
  ELSE IF Last(t) = " " THEN Strip(Front(t))
  ELSE t

\* the string a token stands for
RECURSIVE Join(_)
Join(t) == IF t = <<>> THEN "" ELSE t[1] \o Join(Tail(t))

\* main: dotfiles = [d.strip() for d in args.limit.split(",")]
ParseLimit(limit) == [k \in 1..Len(limit) |-> Join(Strip(limit[k]))]

\* main: exclude = set(args.exclude.split(",")), the items are NOT stripped
ParseExclude(exclude) == {Join(t) : t \in exclude}

\* ------------------------------------------------------------------ state
VARIABLES
  args,                 \* parsed command line: all, limit, exclude
  fs,                   \* the filesystem
  pc,                   \* "start", "loop" (inside symlink_all/_specific), "exit"
  exit_code,            \* process exit status once pc = "exit", -1 before
  error,                \* what ended the run: "none", "usage", "ValueError", "OSError"
  dotfiles_to_process,  \* the filtered selection of the current run
  idx,                  \* position of the for loop in dotfiles_to_process
  calls,                \* names _create_symlink was called for, in call order
  outcome,              \* what the latest _create_symlink call did
  pre,                  \* the filesystem before the latest _create_symlink call
  fs0,                  \* the filesystem when the current run started
  run                   \* number of the current run of the script

\* state of install/ubuntu-2404/install.py
VARIABLES
  environment,          \* programs missing from PATH, commands that fail, package files
  install_pc,           \* "idle", "checks", the install step about to run, "exit"
  install_exit_code,    \* process exit status once install_pc = "exit", -1 before
  install_error,        \* "none", "SystemExit" or the exception that left main
  log,                  \* logger messages, in order
  ran,                  \* commands handed to subprocess.run, in order
  steps                 \* install_* functions entered, in order

install_vars == <<environment, install_pc, install_exit_code, install_error,
                  log, ran, steps>>

vars == <<args, fs, pc, exit_code, error, dotfiles_to_process, idx, calls,
          outcome, pre, fs0, run, host_vars, install_vars>>

\* the install script is not running
InstallNotStarted ==
  /\ environment = [absent |-> {}, failing |-> {}, files |-> <<>>]
  /\ install_pc = "idle"
  /\ install_exit_code = -1
  /\ install_error = "none"
  /\ log = <<>>
  /\ ran = <<>>
  /\ steps = <<>>

\* ------------------------------------------------------- initial states
RECURSIVE SeqsUpTo(_, _)
SeqsUpTo(S, n) ==
  IF n = 0 THEN {<<>>}
  ELSE LET shorter == SeqsUpTo(S, n - 1)
       IN shorter \cup {Append(q, x) : q \in {r \in shorter : Len(r) = n - 1}, x \in S}

\* tokens a user may type: names with a target of their own, the two names
\* that share a target, an unknown name and a name typed after a blank
RawTokens ==
  {<<n>> : n \in {"bashrc", "tmux", "nvim-plugins", "nvim-no-plugins"}}
  \cup {<<"zsh">>, <<" ", "tmux">>}

\* add a node together with the directories above it
PutWithParents(f, p, node) ==
  [q \in DOMAIN f \cup Ancestors(p) \cup {p} |->
     IF q = p THEN node
     ELSE IF q \in DOMAIN f THEN f[q]
     ELSE DirNode]

SourceNode(n) ==
  IF n \in {"nvim-plugins", "nvim-no-plugins"} THEN DirNode ELSE FileNode("src")

RECURSIVE PutSources(_, _, _)
PutSources(f, mp, names) ==
  IF names = {} THEN f
  ELSE LET n == CHOOSE x \in names : TRUE
       IN PutSources(PutWithParents(f, mp[n].source, SourceNode(n)), mp,
                     names \ {n})

\* the home directory, the dotfiles checkout and every source but the missing ones
BaseFs(mp, missing) ==
  PutSources([q \in {home_dir, dotfiles_dir} |-> DirNode], mp, KnownNames \ missing)

TargetsOf(mp) == {mp[n].target : n \in KnownNames}

ConfiguredSources(mp, t) ==
  {mp[n].source : n \in {m \in KnownNames : mp[m].target = t}}

\* what a symlink found at target t may point at
LinkDests(mp, t) ==
  ConfiguredSources(mp, t) \cup {home_dir, Nowhere} \cup (TargetsOf(mp) \ {t})

TargetNodes(mp, t) ==
  {FileNode("old"), DirNode} \cup {LinkNode(d) : d \in LinkDests(mp, t)}

\* filesystems in which one target path, its backup path or a directory above
\* it is already occupied
OccupiedFs(mp, t) ==
  LET base == BaseFs(mp, {})
      b    == WithSuffix(t, BackupSuffix)
      withTarget == {base} \cup {PutWithParents(base, t, nd) : nd \in TargetNodes(mp, t)}
  IN withTarget
     \cup {PutWithParents(f, b, nd) : f \in withTarget, nd \in {FileNode("stale"), DirNode}}
     \cup {PutWithParents(PutWithParents(f, b, DirNode), b \o << <<"kept">> >>, FileNode("kept")) :
             f \in withTarget}
     \cup {PutWithParents(base, Parent(t), DirNode)}
     \cup {PutWithParents(base, a, FileNode("blocker")) : a \in Ancestors(t) \ {home_dir}}

\* filesystems in which the sources of the names in m are missing and the
\* target of one of them is occupied
MissingFs(mp, m) ==
  LET base == BaseFs(mp, m)
  IN {base} \cup {PutWithParents(base, mp[n].target, nd) :
                    n \in m,
                    nd \in {FileNode("old"), DirNode, LinkNode(Nowhere), LinkNode(home_dir)}}

MissingSets == {m \in SUBSET KnownNames : m # {} /\ Cardinality(m) =< MaxMissing}

AnyArgs ==
  {[all |-> a, limit |-> l, exclude |-> e] :
     a \in BOOLEAN,
     l \in SeqsUpTo(RawTokens, MaxLimit),
     e \in {x \in SUBSET RawTokens : Cardinality(x) =< MaxExclude}}

\* one name at a time, and the two --all invocations that validate
PlainArgs ==
  {[all |-> FALSE, limit |-> << <<n>> >>, exclude |-> {}] : n \in KnownNames}
  \cup {[all |-> TRUE, limit |-> <<>>, exclude |-> {<<n>>}] :
          n \in {"nvim-plugins", "nvim-no-plugins"}}

\* the hosts: the three branches of get_default_config_dir, each with
\* CONFIG_DIR unset and with CONFIG_DIR naming a directory of its own
Systems == {"linux", "darwin", "windows"}

ConfigDirValues == {Unset, [set |-> TRUE, value |-> home_dir \o << <<"cfg">> >>]}

\* the names whose target lies below config_dir
ConfigNames(mp, cd) == {n \in KnownNames : IsPrefix(cd, mp[n].target)}

\* the plain command lines that reach a target below config_dir
ConfigArgs(mp, cd) ==
  {a \in PlainArgs : a.all \/ a.limit[1][1] \in ConfigNames(mp, cd)}

\* --all, the two names that share config_dir/nvim, and one name given twice
CollidingArgs ==
  {[all |-> TRUE, limit |-> <<>>, exclude |-> {}],
   [all |-> FALSE, limit |-> << <<"nvim-plugins">>, <<"nvim-no-plugins">> >>,
    exclude |-> {}],
   [all |-> FALSE, limit |-> << <<"nvim-plugins">>, <<"nvim-plugins">> >>,
    exclude |-> {}]}

\* on a Linux host without CONFIG_DIR: any command line on a fresh home, and
\* the plain command lines on every occupied or incomplete filesystem; on the
\* other hosts: the colliding command lines on a fresh home, and the command
\* lines that reach config_dir on the filesystems in which a target below
\* config_dir is occupied
InitialInputs(system, env) ==
  LET cd == ConfigDir(system, env)
      mp == ConfigMapping(cd)
  IN IF system = "linux" /\ ~env.set
     THEN {<<a, BaseFs(mp, {})>> : a \in AnyArgs}
          \cup {<<a, f>> : a \in PlainArgs,
                           f \in UNION {OccupiedFs(mp, t) : t \in TargetsOf(mp)}}
          \cup {<<a, f>> : a \in PlainArgs,
                           f \in UNION {MissingFs(mp, m) : m \in MissingSets}}
     ELSE {<<a, BaseFs(mp, {})>> : a \in CollidingArgs}
          \cup {<<a, f>> : a \in ConfigArgs(mp, cd),
                           f \in UNION {OccupiedFs(mp, mp[n].target) :
                                          n \in ConfigNames(mp, cd)}}

Init ==
  /\ \E system \in Systems, env \in ConfigDirValues :
       /\ platform_system = system
       /\ CONFIG_DIR = env
       /\ \E in \in InitialInputs(system, env) : args = in[1] /\ fs = in[2]
  /\ pc = "start"
  /\ exit_code = -1
  /\ error = "none"
  /\ dotfiles_to_process = <<>>
  /\ idx = 0
  /\ calls = <<>>
  /\ outcome = "none"
  /\ pre = fs
  /\ fs0 = fs
  /\ run = 1
  /\ InstallNotStarted

\* ---------------------------------------------------------------- actions
\* the part of symlink_all / symlink_specific before the for loop:
\* _check_duplicate_targets(selection), then enter the loop or fall through
Validate(selection) ==
  /\ dotfiles_to_process' = selection
  /\ IF CheckDuplicateTargetsRaises(selection)
     THEN \* ValueError, caught in main: sys.exit(1)
          /\ pc' = "exit" /\ exit_code' = 1 /\ error' = "ValueError" /\ idx' = 0
     ELSE IF selection = <<>>
     THEN /\ pc' = "exit" /\ exit_code' = 0 /\ error' = "none" /\ idx' = 0
     ELSE /\ pc' = "loop" /\ exit_code' = -1 /\ error' = "none" /\ idx' = 1
  /\ UNCHANGED <<args, fs, calls, outcome, pre, fs0, run>>
  /\ UNCHANGED <<host_vars, install_vars>>

\* main, args.all: manager.symlink_all(exclude)
SymlinkAll ==
  /\ pc = "start"
  /\ args.all
  /\ Validate(SelectAll(ParseExclude(args.exclude)))

\* main, args.limit: manager.symlink_specific(dotfiles, exclude)
SymlinkSpecific ==
  /\ pc = "start"
  /\ ~args.all
  /\ args.limit # <<>>
  /\ Validate(SelectSpecific(ParseLimit(args.limit), ParseExclude(args.exclude)))

\* main, neither --all nor --limit: parser.print_help(); sys.exit(1)
PrintHelp ==
  /\ pc = "start"
  /\ ~args.all
  /\ args.limit = <<>>
  /\ pc' = "exit" /\ exit_code' = 1 /\ error' = "usage"
  /\ UNCHANGED <<args, fs, dotfiles_to_process, idx, calls, outcome, pre, fs0, run>>
  /\ UNCHANGED <<host_vars, install_vars>>

\* one iteration of the for loop: self._create_symlink(source, target).  An
\* exception that leaves _create_symlink is no ValueError, so it leaves main
\* as well and the interpreter exits with status 1; after the last entry main
\* returns and the status is 0.
CreateSymlinkStep ==
  /\ pc = "loop"
  /\ LET name    == dotfiles_to_process[idx]
         mapping == config_mapping[name]
         r       == CreateSymlink(fs, mapping.source, mapping.target)
     IN /\ fs' = r.fs
        /\ pre' = fs
        /\ calls' = Append(calls, name)
        /\ outcome' = r.outcome
        /\ IF r.raised
           THEN /\ pc' = "exit" /\ exit_code' = 1 /\ error' = "OSError" /\ idx' = idx
           ELSE IF idx = Len(dotfiles_to_process)
           THEN /\ pc' = "exit" /\ exit_code' = 0 /\ error' = "none" /\ idx' = idx
           ELSE /\ pc' = "loop" /\ exit_code' = -1 /\ error' = "none" /\ idx' = idx + 1
  /\ UNCHANGED <<args, dotfiles_to_process, fs0, run>>
  /\ UNCHANGED <<host_vars, install_vars>>

\* the script is started again with the same command line
Rerun ==
  /\ pc = "exit"
  /\ run < MaxRuns
  /\ run' = run + 1
  /\ pc' = "start"
  /\ exit_code' = -1
  /\ error' = "none"
  /\ dotfiles_to_process' = <<>>
  /\ idx' = 0
  /\ calls' = <<>>
  /\ outcome' = "none"
  /\ pre' = fs
  /\ fs0' = fs
  /\ UNCHANGED <<args, fs>>
  /\ UNCHANGED <<host_vars, install_vars>>

Next ==
  \/ SymlinkAll
  \/ SymlinkSpecific
  \/ PrintHelp
  \/ CreateSymlinkStep
  \/ Rerun

Spec == Init /\ [][Next]_vars

\* ------------------------------------------------------------- properties
\* the run got past argument handling into symlink_all / symlink_specific
Selected == pc # "start" /\ error # "usage"

\* two positions of the selection hold names with one target path
SharesTarget(sel) ==
  \E j, k \in 1..Len(sel) : j # k /\ TargetOf(sel[j]) = TargetOf(sel[k])

\* two DISTINCT names of the selection have one target path
DistinctNamesShareTarget(sel) ==
  \E j, k \in 1..Len(sel) : sel[j] # sel[k] /\ TargetOf(sel[j]) = TargetOf(sel[k])

NoRepeats(sel) == \A j, k \in 1..Len(sel) : sel[j] = sel[k] => j = k

\* the entry of the latest _create_symlink call
LastName == Last(calls)

\* C1: when the filtered selection holds two or more names with the same
\* target path, the run ends with ValueError (exit status 1) before
\* _create_symlink is called for any entry and the filesystem is the one the
\* run started with.
C1_CollisionAbortsBeforeAnyMutation ==
  (Selected /\ SharesTarget(dotfiles_to_process))
    => /\ pc = "exit"
       /\ error = "ValueError"
       /\ exit_code = 1
       /\ calls = <<>>
       /\ fs = fs0

C1_Witness ==
  /\ pc = "exit"
  /\ error = "ValueError"
  /\ {"nvim-plugins", "nvim-no-plugins"} \subseteq Range(dotfiles_to_process)

\* C2 (as claimed): a run over a collision-free selection always processes
\* every entry of the selection and ends with exit status 0, whatever
\* filesystem failure one entry meets.
C2_EntryFailuresNeverEndTheRun ==
  (pc = "exit" /\ error \notin {"usage", "ValueError"})
    => (exit_code = 0 /\ calls = dotfiles_to_process)

\* C3 (as claimed): after _create_symlink has linked an entry whose source
\* exists and whose target was a plain file, the path made of the full target
\* name with ".backup" appended holds the old contents of the target and the
\* target is a symlink to the configured source.
C3_BackupIsTargetNamePlusBackup ==
  (/\ calls # <<>>
   /\ outcome = "created"
   /\ Exists(pre, SourceOf(LastName))
   /\ LExists(pre, TargetOf(LastName))
   /\ pre[TargetOf(LastName)].kind = "file")
    => LET b == WithSuffixAppend(TargetOf(LastName), BackupSuffix)
       IN /\ LExists(fs, b)
          /\ fs[b] = pre[TargetOf(LastName)]
          /\ fs[TargetOf(LastName)] = LinkNode(SourceOf(LastName))

\* C4 (as claimed): after _create_symlink for an entry whose source exists and
\* whose target path was a symlink, wherever that symlink pointed, the target
\* is a symlink to the configured source.
C4_ExistingSymlinkIsReplaced ==
  (/\ calls # <<>>
   /\ Exists(pre, SourceOf(LastName))
   /\ IsSymlink(pre, TargetOf(LastName)))
    => /\ LExists(fs, TargetOf(LastName))
       /\ fs[TargetOf(LastName)] = LinkNode(SourceOf(LastName))

\* C5 (as claimed): a second run over the unchanged, collision-free selection
\* ends with the filesystem exactly as the first run left it.
C5_SecondRunChangesNothing ==
  (run >= 2 /\ pc = "exit" /\ error \notin {"usage", "ValueError"}) => fs = fs0

\* C6 (as claimed): when no two distinct selected names have the same target
\* path, validation raises no ValueError and the resolved selection holds
\* each name at most once.
C6_NoCollisionMeansValidationSucceeds ==
  (Selected /\ ~DistinctNamesShareTarget(dotfiles_to_process))
    => (error # "ValueError" /\ NoRepeats(dotfiles_to_process))

\* C7 (as claimed): --all with no exclusion applies every entry of the
\* mapping table and leaves a symlink at the target of every entry whose
\* source exists.
C7_AllSymlinksEveryDotfile ==
  (args.all /\ args.exclude = {} /\ pc = "exit")
    => /\ calls = config_mapping_keys
       /\ \A n \in KnownNames : Exists(fs0, SourceOf(n)) => IsSymlink(fs, TargetOf(n))

\* C8: in both modes no name of the exclusion set is ever passed to
\* _create_symlink nor to _check_duplicate_targets, even when it is a known
\* mapping entry or is also named in the inclusion list.
C8_ExcludedNamesNeverApplied ==
  \A n \in ParseExclude(args.exclude) :
    n \notin Range(calls) /\ n \notin Range(dotfiles_to_process)

C8_Witness ==
  /\ pc = "exit"
  /\ calls # <<>>
  /\ \E n \in ParseExclude(args.exclude) \cap KnownNames :
       args.all \/ n \in Range(ParseLimit(args.limit))

\* C9 (as claimed): in both modes entries are processed in mapping-table
\* order, whatever the order of the inclusion list.
C9_AppliedInMappingTableOrder ==
  \A j, k \in 1..Len(calls) :
    j < k => MappingIndex(calls[j]) < MappingIndex(calls[k])

\* first position of a name in the inclusion list as main parsed it
LimitPosition(n) ==
  LET l == ParseLimit(args.limit)
  IN CHOOSE k \in 1..Len(l) : l[k] = n /\ \A j \in 1..(k - 1) : l[j] # n

\* C9 (amended): entries are processed one after another in the order of the
\* filtered selection: mapping-table order under symlink_all, the order of
\* the inclusion list under symlink_specific; and a run that ends normally
\* has processed the whole selection.
C9_AppliedInSelectionOrder ==
  /\ \A j, k \in 1..Len(calls) :
       j < k => IF args.all
                THEN MappingIndex(calls[j]) < MappingIndex(calls[k])
                ELSE /\ calls[j] \in Range(ParseLimit(args.limit))
                     /\ calls[k] \in Range(ParseLimit(args.limit))
                     /\ LimitPosition(calls[j]) < LimitPosition(calls[k])
  /\ (pc = "exit" /\ error = "none") => calls = dotfiles_to_process

C9_Witness ==
  /\ ~args.all
  /\ pc = "exit"
  /\ Len(calls) = 2
  /\ MappingIndex(calls[1]) > MappingIndex(calls[2])

\* C10: a _create_symlink call for an entry whose source does not exist
\* changes nothing in the filesystem (no parent directory made, the target
\* neither removed nor renamed, no symlink made) and raises nothing: the loop
\* goes on to the next entry, or the run ends with status 0 after the last.
C10_MissingSourceIsSkippedUntouched ==
  (calls # <<>> /\ ~Exists(pre, SourceOf(LastName)))
    => /\ fs = pre
       /\ outcome = "skipped"
       /\ error = "none"
       /\ \/ pc = "loop" /\ idx = Len(calls) + 1
          \/ pc = "exit" /\ exit_code = 0 /\ calls = dotfiles_to_process

C10_Witness ==
  /\ calls # <<>>
  /\ ~Exists(pre, SourceOf(LastName))
  /\ LExists(pre, TargetOf(LastName))
  /\ pc = "loop"

\* =========================================================================
\* install/ubuntu-2404/install.py
\* =========================================================================
MaxLines == 2
MaxAbsent == 1
MaxFailing == 1

\* main: the install_* calls in call order
InstallSteps == <<"apt", "homebrew", "rust", "python", "python_tools", "npx">>

\* the package list a step reads ("" for install_rust, which reads none)
PackageFile(step) ==
  CASE step = "apt" -> "apt.txt"
    [] step = "homebrew" -> "brew.txt"
    [] step = "python" -> "uv-python.txt"
    [] step = "python_tools" -> "uv-tool.txt"
    [] step = "npx" -> "npx.txt"
    [] OTHER -> ""

\* the command a step runs for a package
PackageCommand(step, package) ==
  CASE step = "homebrew" -> <<"brew", "install", package>>
    [] step = "python" -> <<"uv", "python", "install", package>>
    [] step = "python_tools" -> <<"uv", "tool", "install", package>>
    [] step = "npx" -> <<"npm", "install", "-g", package>>

AptUpdate == <<"sudo", "apt", "update">>

AptInstall(packages) == <<"sudo", "apt", "install", "-y">> \o packages

RustupInstall == <<"rustup", "toolchain", "install", "stable">>

\* what subprocess.run meets: "notfound" when the program is not on PATH
\* (FileNotFoundError), "nonzero" when the command exits with a non-zero
\* status, "ok" otherwise.  `which c` exits non-zero exactly when c is not on
\* PATH; sudo exits non-zero when the program it is to run is not on PATH.
SubprocessRun(env, cmd) ==
  IF cmd[1] \in env.absent THEN "notfound"
  ELSE IF cmd[1] = "which"
  THEN IF cmd[2] \in env.absent THEN "nonzero" ELSE "ok"
  ELSE IF cmd[1] = "sudo" /\ cmd[2] \in env.absent THEN "nonzero"
  ELSE IF cmd \in env.failing THEN "nonzero"
  ELSE "ok"

RunCommandNeverExits(env, cmd, check) ==
  LET o == SubprocessRun(env, cmd)
  IN IF o = "notfound" THEN [kind |-> "FileNotFoundError", log |-> <<>>]
     ELSE [kind |-> "returned", log |-> <<>>]

\* run_command(cmd, check): subprocess.run raises CalledProcessError only when
\* check is set; the handler logs and calls sys.exit(1).  FileNotFoundError is
\* not handled.
RunCommand(env, cmd, check) ==
  LET o == SubprocessRun(env, cmd)
  IN IF o = "notfound" THEN [kind |-> "FileNotFoundError", log |-> <<>>]
     ELSE IF o = "nonzero" /\ check
     THEN [kind |-> "SystemExit", log |-> << <<"Command failed">> \o cmd >>]
     ELSE [kind |-> "returned", log |-> <<>>]

\* command_exists(cmd): True unless run_command raises CalledProcessError,
\* which with check=False it never does
CommandExists(env, cmd) ==
  LET r == RunCommand(env, <<"which", cmd>>, FALSE)
  IN IF r.kind = "returned" THEN [kind |-> "returned", value |-> TRUE]
     ELSE IF r.kind = "CalledProcessError" THEN [kind |-> "returned", value |-> FALSE]
     ELSE [kind |-> r.kind, value |-> FALSE]

\* require_command(cmd)
RequireCommand(env, cmd) ==
  LET e == CommandExists(env, cmd)
  IN IF e.kind # "returned" THEN [kind |-> e.kind, log |-> <<>>, ran |-> << <<"which", cmd>> >>]
     ELSE IF ~e.value
     THEN [kind |-> "SystemExit", log |-> << <<cmd, "is required but not installed">> >>,
           ran |-> << <<"which", cmd>> >>]
     ELSE [kind |-> "returned", log |-> <<>>, ran |-> << <<"which", cmd>> >>]

\* main: require_command("curl"); require_command("sudo"); require_command("brew")
RequiredCommands == <<"curl", "sudo", "brew">>

\* line.split("#")[0]
RECURSIVE BeforeHash(_)
BeforeHash(line) ==
  IF line = <<>> \/ line[1] = "#" THEN <<>>
  ELSE <<line[1]>> \o BeforeHash(Tail(line))

\* read_packages, the body of the for loop: the package of one line, "" for none
PackageOfLine(raw) ==
  LET line == Strip(raw)
  IN IF line # <<>> /\ line[1] # "#"
     THEN Join(Strip(BeforeHash(line)))
     ELSE ""

RECURSIVE PackagesOfLines(_)
PackagesOfLines(lines) ==
  IF lines = <<>> THEN <<>>
  ELSE LET package == PackageOfLine(lines[1])
       IN (IF package # "" THEN <<package>> ELSE <<>>) \o PackagesOfLines(Tail(lines))

\* read_packages(file_path): sys.exit(1) when the file does not exist
ReadPackages(env, file) ==
  IF ~env.files[file].exists
  THEN [kind |-> "SystemExit", packages |-> <<>>,
        log |-> << <<"Package file not found", file>> >>]
  ELSE [kind |-> "returned", packages |-> PackagesOfLines(env.files[file].lines),
        log |-> <<>>]

\* a sequence of run_command(cmd) calls (check=True), ended by the first that
\* does not return
RECURSIVE RunEach(_, _)
RunEach(env, cmds) ==
  IF cmds = <<>> THEN [kind |-> "returned", log |-> <<>>, ran |-> <<>>]
  ELSE LET r == RunCommand(env, cmds[1], TRUE)
       IN IF r.kind # "returned"
          THEN [kind |-> r.kind, log |-> r.log, ran |-> <<cmds[1]>>]
          ELSE LET rest == RunEach(env, Tail(cmds))
               IN [kind |-> rest.kind, log |-> r.log \o rest.log,
                   ran |-> <<cmds[1]>> \o rest.ran]

\* install_apt_packages: apt update, then the package list, then one apt install
InstallAptPackages(env) ==
  LET u == RunEach(env, <<AptUpdate>>)
  IN IF u.kind # "returned" THEN u
     ELSE LET f == ReadPackages(env, PackageFile("apt"))
          IN IF f.kind # "returned"
             THEN [kind |-> f.kind, log |-> u.log \o f.log, ran |-> u.ran]
             ELSE IF f.packages = <<>>
             THEN [kind |-> "returned", ran |-> u.ran,
                   log |-> u.log \o << <<"No packages found">> >>]
             ELSE LET i == RunEach(env, <<AptInstall(f.packages)>>)
                  IN [kind |-> i.kind, log |-> u.log \o i.log, ran |-> u.ran \o i.ran]

\* install_homebrew, install_python, install_python_tools, install_npx: the
\* package list, then one command per package
InstallFromList(env, step) ==
  LET f == ReadPackages(env, PackageFile(step))
  IN IF f.kind # "returned" THEN [kind |-> f.kind, log |-> f.log, ran |-> <<>>]
     ELSE IF f.packages = <<>>
     THEN [kind |-> "returned", ran |-> <<>>, log |-> << <<"No packages found">> >>]
     ELSE RunEach(env, [k \in 1..Len(f.packages) |-> PackageCommand(step, f.packages[k])])

\* install_rust
InstallRust(env) ==
  LET e == CommandExists(env, "rustup")
      w == << <<"which", "rustup">> >>
  IN IF e.kind # "returned" THEN [kind |-> e.kind, log |-> <<>>, ran |-> w]
     ELSE IF ~e.value
     THEN [kind |-> "SystemExit", log |-> << <<"Rustup not found">> >>, ran |-> w]
     ELSE LET r == RunEach(env, <<RustupInstall>>)
          IN [kind |-> r.kind, log |-> r.log, ran |-> w \o r.ran]

InstallStep(env, step) ==
  CASE step = "apt" -> InstallAptPackages(env)
    [] step = "rust" -> InstallRust(env)
    [] OTHER -> InstallFromList(env, step)

SuccessMessage == <<"All packages have been installed successfully">>

\* ------------------------------------------------- install: initial states
Programs == {"which", "curl", "sudo", "brew", "rustup", "uv", "npm", "apt"}

PackageFiles == {PackageFile(st) : st \in Range(InstallSteps) \ {"rust"}}

\* lines of a package list: a package, a padded package with an inline
\* comment, a comment line, a blank line
PackageLines ==
  {<<"pkg1">>, <<" ", "pkg2", " ", "#", "note">>, <<"#", " ", "note">>, <<" ">>}

FileContents ==
  {[exists |-> FALSE, lines |-> <<>>]}
  \cup {[exists |-> TRUE, lines |-> l] : l \in SeqsUpTo(PackageLines, MaxLines)}

DefaultFiles == [f \in PackageFiles |-> [exists |-> TRUE, lines |-> << <<"pkg1">> >>]]

\* every package list as shipped but one
FileSets ==
  {[f \in PackageFiles |-> IF f = g THEN c ELSE DefaultFiles[f]] :
     g \in PackageFiles, c \in FileContents}

\* the install commands main runs when nothing fails
PlannedCommands(files) ==
  LET packages(st) == IF files[PackageFile(st)].exists
                      THEN PackagesOfLines(files[PackageFile(st)].lines)
                      ELSE <<>>
  IN {AptUpdate, RustupInstall}
     \cup (IF packages("apt") # <<>> THEN {AptInstall(packages("apt"))} ELSE {})
     \cup UNION {{PackageCommand(st, pk) : pk \in Range(packages(st))} :
                   st \in {"homebrew", "python", "python_tools", "npx"}}

FailingSets(files) ==
  {y \in SUBSET PlannedCommands(files) : Cardinality(y) =< MaxFailing}

Environments ==
  UNION {{[absent |-> {}, failing |-> x, files |-> fl] : x \in FailingSets(fl)} :
           fl \in FileSets}
  \cup
  {[absent |-> a, failing |-> x, files |-> DefaultFiles] :
     a \in {b \in SUBSET Programs : Cardinality(b) =< MaxAbsent},
     x \in FailingSets(DefaultFiles)}

\* the symlink manager is not running
SymlinkManagerNotStarted ==
  /\ platform_system = "linux"
  /\ CONFIG_DIR = Unset
  /\ args = [all |-> FALSE, limit |-> <<>>, exclude |-> {}]
  /\ fs = BaseFs(ConfigMapping(ConfigDir("linux", Unset)), {})
  /\ pc = "start"
  /\ exit_code = -1
  /\ error = "none"
  /\ dotfiles_to_process = <<>>
  /\ idx = 0
  /\ calls = <<>>
  /\ outcome = "none"
  /\ pre = fs
  /\ fs0 = fs
  /\ run = 1

InstallInit ==
  /\ SymlinkManagerNotStarted
  /\ environment \in Environments
  /\ install_pc = "checks"
  /\ install_exit_code = -1
  /\ install_error = "none"
  /\ log = <<>>
  /\ ran = <<>>
  /\ steps = <<>>

\* ------------------------------------------------------- install: actions
symlink_vars == <<args, fs, pc, exit_code, error, dotfiles_to_process, idx,
                  calls, outcome, pre, fs0, host_vars>>

\* a sequence of require_command calls, ended by the first that does not return
RECURSIVE RequireEach(_, _)
RequireEach(env, cmds) ==
  IF cmds = <<>> THEN [kind |-> "returned", log |-> <<>>, ran |-> <<>>]
  ELSE LET r == RequireCommand(env, cmds[1])
       IN IF r.kind # "returned" THEN r
          ELSE LET rest == RequireEach(env, Tail(cmds))
               IN [kind |-> rest.kind, log |-> r.log \o rest.log, ran |-> r.ran \o rest.ran]

\* main: "Checking required system commands..."
CheckRequiredCommands ==
  /\ install_pc = "checks"
  /\ LET r == RequireEach(environment, RequiredCommands)
     IN /\ ran' = ran \o r.ran
        /\ IF r.kind = "returned"
           THEN /\ install_pc' = InstallSteps[1]
                /\ install_exit_code' = -1
                /\ install_error' = "none"
                /\ log' = log \o r.log \o << <<"All required commands are available">> >>
           ELSE /\ install_pc' = "exit"
                /\ install_exit_code' = 1
                /\ install_error' = r.kind
                /\ log' = log \o r.log
  /\ UNCHANGED <<environment, steps, symlink_vars, run>>

\* main: one install_* call; after the last one the success message is logged
\* and main returns.  sys.exit(1) and an unhandled exception both end the
\* process with status 1.
RunInstallStep(k) ==
  /\ install_pc = InstallSteps[k]
  /\ LET r == InstallStep(environment, InstallSteps[k])
     IN /\ steps' = Append(steps, InstallSteps[k])
        /\ ran' = ran \o r.ran
        /\ IF r.kind # "returned"
           THEN /\ install_pc' = "exit"
                /\ install_exit_code' = 1
                /\ install_error' = r.kind
                /\ log' = log \o r.log
           ELSE IF k = Len(InstallSteps)
           THEN /\ install_pc' = "exit"
                /\ install_exit_code' = 0
                /\ install_error' = "none"
                /\ log' = log \o r.log \o <<SuccessMessage>>
           ELSE /\ install_pc' = InstallSteps[k + 1]
                /\ install_exit_code' = -1
                /\ install_error' = "none"
                /\ log' = log \o r.log
  /\ UNCHANGED <<environment, symlink_vars, run>>

InstallApt == RunInstallStep(1)

InstallHomebrew == RunInstallStep(2)

InstallRustToolchain == RunInstallStep(3)

InstallPython == RunInstallStep(4)

InstallPythonTools == RunInstallStep(5)

InstallNpx == RunInstallStep(6)

InstallNext ==
  \/ CheckRequiredCommands
  \/ InstallApt
  \/ InstallHomebrew
  \/ InstallRustToolchain
  \/ InstallPython
  \/ InstallPythonTools
  \/ InstallNpx

InstallSpec == InstallInit /\ [][InstallNext]_vars

\* --------------------------------------------------- install: properties
IsInstallCommand(cmd) == cmd[1] # "which"

Failed(cmd) == SubprocessRun(environment, cmd) # "ok"

\* C11 (as claimed): when a required command is not installed (and `which`
\* itself is), command_exists returns False for it and require_command logs
\* the error and ends the process with status 1 before any install step runs.
C11_MissingRequiredCommandEndsTheRun ==
  \A c \in Range(RequiredCommands) :
    (/\ install_pc \notin {"idle", "checks"}
     /\ "which" \notin environment.absent
     /\ c \in environment.absent)
      => /\ ~CommandExists(environment, c).value
         /\ install_pc = "exit"
         /\ install_exit_code = 1
         /\ steps = <<>>
         /\ <<c, "is required but not installed">> \in Range(log)

\* C12: the install steps run in the order apt, Homebrew, Rust, Python
\* versions, Python tools, NPX; an install command that does not succeed, or
\* a missing package list, is the last thing the run does and the process
\* ends with status 1; the success message is logged only when all six steps
\* ran, every package list existed and the command of every listed package
\* ran and succeeded.
C12_OrderedAndFailFast ==
  /\ IsPrefix(steps, InstallSteps)
  /\ \A k \in 1..Len(ran) :
       (IsInstallCommand(ran[k]) /\ Failed(ran[k]))
         => (k = Len(ran) /\ install_pc = "exit" /\ install_exit_code = 1)
  /\ \A k \in 1..Len(steps) :
       (steps[k] # "rust" /\ ~environment.files[PackageFile(steps[k])].exists)
         => (k = Len(steps) /\ install_pc = "exit" /\ install_exit_code = 1)
  /\ SuccessMessage \in Range(log)
       => /\ steps = InstallSteps
          /\ install_pc = "exit"
          /\ install_exit_code = 0
          /\ \A f \in PackageFiles : environment.files[f].exists
          /\ PlannedCommands(environment.files) \subseteq Range(ran)
          /\ \A k \in 1..Len(ran) : IsInstallCommand(ran[k]) => ~Failed(ran[k])

C12_Witness ==
  /\ install_pc = "exit"
  /\ install_exit_code = 1
  /\ Len(steps) \in 2..(Len(InstallSteps) - 1)
  /\ Len(ran) > 5
  /\ Last(ran) \in environment.failing

====
